---- MODULE Spec2Model ----
(***************************************************************************)
(* Model of the huzaa relay (internal/turnrelay): the port pool, the       *)
(* session registry, Session.Close, the bot handshake, the registration    *)
(* loop, the per-session DCC listener and the two relay loops.  Every      *)
(* goroutine is a process with a program counter; one action is one        *)
(* shared-memory or I/O step of the Go code.                               *)
(***************************************************************************)
EXTENDS Integers, Sequences, FiniteSets, TLC

\* ------------------------------------------------------------------ bounds
\* Session objects ever created by NewSession (caps the registration loop).
MaxSess == 2
\* Longest Data payload the bot sends in one frame.
MaxPayload == 2
\* Bytes a user client writes in one upload; the stream is 1, 2, ...
MaxUserBytes == 2
\* Frames the relay reads in the registration loop of one connection.
MaxRegFrames == 2
\* The configured port range of the relay runs.
DCCPortMin == 1
DCCPortMax == 2
\* Data frames a bot sends in one download.
MaxDataFrames == 2
\* Data frames, payload bytes and user bytes per transfer while two bots run.
ContendedData == 0
\* Bytes io.Copy moves per Read/Write round (its buffer).
CopyBuf == 1

\* Longest payload of a first frame in the handshake runs.
MaxAuthPayload == 6
MaxWireFrames == 2

\* ------------------------------------------------------- program constants
\* portPool.allocate draws at most this many candidates.
AllocAttempts == 100
\* rand.Read fills two bytes: the draw is a uint16.
MaxUint16 == 65535
\* Session identifier: the first 36 bytes of a registration payload.
SessionIDLen == 36
\* A registration payload shorter than this is rejected.
MinRegPayload == 4
\* Capacities of Session.UserConn and Session.BotStream.
UserConnCap == 256
BotStreamCap == 512
\* The upload listener's read buffer.
UploadBufSize == 32768

\* Bot connections (goroutines of handleBotConnection).
Conns == {"c1", "c2", "c3"}
SessObjs == 1..MaxSess
\* "no session": the nil *Session.
Nil == 0

Min2(a, b) == IF a < b THEN a ELSE b

\* The stream bytes from+1 .. from+n, in order.
Run(from, n) == [i \in 1..n |-> from + i]

IsPrefix(s, t) == Len(s) <= Len(t) /\ SubSeq(t, 1, Len(s)) = s

RECURSIVE Flatten(_)
Flatten(ss) == IF ss = <<>> THEN <<>> ELSE Head(ss) \o Flatten(Tail(ss))

\* ---------------------------------------------------------------- portPool
newPortPool(minPort, maxPort) == [min |-> minPort, max |-> maxPort, used |-> {}]

\* The ports the draw  min + uint16 % (max-min+1)  can produce, per range.
PortRanges ==
  {<<lo, hi>> : lo \in DCCPortMin..DCCPortMax, hi \in DCCPortMin..DCCPortMax}
  \ {r \in (DCCPortMin..DCCPortMax) \X (DCCPortMin..DCCPortMax) : r[2] < r[1]}
CandidateTable ==
  [r \in PortRanges |->
     {r[1] + (v % (r[2] - r[1] + 1)) : v \in 0..MaxUint16}]
Candidates(p) == CandidateTable[<<p.min, p.max>>]

\* Outcomes of one allocate() call under the mutex: the first drawn candidate
\* that is not in use is marked and returned; the call fails when all
\* AllocAttempts draws hit ports in use (possible iff some candidate is in use).
allocateNoCheck(p) ==
  {[ok |-> TRUE, port |-> q, pool |-> [p EXCEPT !.used = @ \cup {q}]] :
     q \in Candidates(p)}
allocate(p) ==
  {[ok |-> TRUE, port |-> q, pool |-> [p EXCEPT !.used = @ \cup {q}]] :
     q \in Candidates(p) \ p.used}
  \cup (IF AllocAttempts = 0 \/ Candidates(p) \cap p.used # {}
        THEN {[ok |-> FALSE, port |-> 0, pool |-> p]} ELSE {})

release(p, port) == [p EXCEPT !.used = @ \ {port}]

\* ----------------------------------------------------------------- Session
\* History fields: owner is the connection that registered the session,
\* closes counts the executions of close(s.Done), releases counts the
\* portPool.release calls removeSession made for this session, rollbacks
\* those allocateDCCPort made for it after a failed Listen.
NoSession ==
  [ID |-> <<>>, Kind |-> "none", Port |-> 0, Done |-> FALSE, owner |-> "none",
   UserConn |-> <<>>, UserConnClosed |-> FALSE,
   BotStream |-> <<>>, BotStreamClosed |-> FALSE,
   closes |-> 0, releases |-> 0, rollbacks |-> 0]
NewSession(id, kind, port) ==
  [NoSession EXCEPT !.ID = id, !.Kind = kind, !.Port = port]

\* Session.Close on the heap S: close(s.Done) unless it is closed already.
Close(S, o) ==
  IF S[o].Done THEN S
  ELSE [S EXCEPT ![o].Done = TRUE, ![o].closes = @ + 1]

\* ------------------------------------------------------------------ frames
\* A frame is (type, payload); m carries the text of an Error frame.
Frame(t, p) == [t |-> t, p |-> p, m |-> ""]
ErrorFrame(msg) == [t |-> "Error", p |-> <<>>, m |-> msg]

\* A uint32 is the pair <<high 16 bits, low 16 bits>>, so that values up to
\* 2^32 - 1 and the wrap-around of + stay within 32-bit signed integers.
U32(n) == <<(n \div 65536) % 65536, n % 65536>>
U32Add(x, y) ==
  <<(x[1] + y[1] + ((x[2] + y[2]) \div 65536)) % 65536, (x[2] + y[2]) % 65536>>
U32Less(x, y) == x[1] < y[1] \/ (x[1] = y[1] /\ x[2] < y[2])
\* The value as an int, for values below 2^31.
U32Int(x) == x[1] * 65536 + x[2]

\* binary.BigEndian.Uint32 / PutUint32
Uint32(b) == <<b[1] * 256 + b[2], b[3] * 256 + b[4]>>
PutUint32LittleEndian(v) ==
  <<v % 256, (v \div 256) % 256, (v \div 65536) % 256, (v \div 16777216) % 256>>
PutUint32(v) ==
  <<(v \div 16777216) % 256, (v \div 65536) % 256, (v \div 256) % 256, v % 256>>

\* ------------------------------------------------------- the frame codec
\* A byte string is a sequence of runs <<byte, count>>, no two neighbouring
\* runs with the same byte: payloads of 2 MiB stay small values, and two
\* byte strings are equal iff their run sequences are.
RECURSIVE BLen(_)
BLen(s) == IF s = <<>> THEN 0 ELSE Head(s)[2] + BLen(Tail(s))
BCat(a, b) ==
  IF a = <<>> THEN b
  ELSE IF b = <<>> THEN a
  ELSE IF a[Len(a)][1] = b[1][1]
  THEN SubSeq(a, 1, Len(a) - 1) \o <<<<b[1][1], a[Len(a)][2] + b[1][2]>>>> \o Tail(b)
  ELSE a \o b
\* s[:n] and s[n:], clipped to the bytes s has.
RECURSIVE BTake(_, _)
BTake(s, n) ==
  IF n = 0 \/ s = <<>> THEN <<>>
  ELSE IF Head(s)[2] <= n THEN <<Head(s)>> \o BTake(Tail(s), n - Head(s)[2])
  ELSE <<<<Head(s)[1], n>>>>
RECURSIVE BDrop(_, _)
BDrop(s, n) ==
  IF n = 0 \/ s = <<>> THEN s
  ELSE IF Head(s)[2] <= n THEN BDrop(Tail(s), n - Head(s)[2])
  ELSE <<<<Head(s)[1], Head(s)[2] - n>>>> \o Tail(s)
\* The bytes one by one (for the 5 header bytes), and back.
RECURSIVE BList(_)
BList(s) ==
  IF s = <<>> THEN <<>>
  ELSE [i \in 1..Head(s)[2] |-> Head(s)[1]] \o BList(Tail(s))
RECURSIVE BOf(_)
BOf(bytes) ==
  IF bytes = <<>> THEN <<>> ELSE BCat(<<<<Head(bytes), 1>>>>, BOf(Tail(bytes)))

\* The largest payload ReadFrame accepts: 2*1024*1024.
MaxFramePayload == 2 * 1024 * 1024

\* WriteFrame(w, msgType, payload) on a writer that takes every byte: the
\* bytes it appends, header first, the payload only if it is not empty.
WriteFrameBytes(msgType, payload) ==
  LET h == <<msgType>> \o PutUint32(BLen(payload))
  IN IF BLen(payload) > 0 THEN BCat(BOf(h), payload) ELSE BOf(h)

\* io.ReadFull(r, buf) for n = len(buf) on the stream s: the bytes read, the
\* error and the stream left.
ReadFull(s, n) ==
  LET got == BTake(s, n)
  IN [b |-> got, rest |-> BDrop(s, n),
      err |-> IF BLen(got) = n THEN "none"
              ELSE IF BLen(got) = 0 THEN "EOF" ELSE "ErrUnexpectedEOF"]

\* ReadFrame(r): type, payload (nil says "no payload returned"), error and
\* the stream left behind.
FrameError(err, rest) ==
  [t |-> 0, p |-> <<>>, nil |-> TRUE, err |-> err, rest |-> rest]
ReadFrameStrict(s) ==
  LET h == ReadFull(s, 5)
  IN IF h.err # "none" THEN FrameError(h.err, h.rest)
     ELSE LET hb == BList(h.b)
              ln == Uint32(SubSeq(hb, 2, 5))
          IN IF ~U32Less(ln, U32(MaxFramePayload))
             THEN FrameError("ErrShortBuffer", h.rest)
             ELSE LET body == ReadFull(h.rest, U32Int(ln))
                  IN IF U32Int(ln) > 0 /\ body.err # "none"
                     THEN FrameError(body.err, body.rest)
                     ELSE [t |-> hb[1], p |-> body.b, nil |-> FALSE,
                           err |-> "none", rest |-> body.rest]
ReadFrame(s) ==
  LET h == ReadFull(s, 5)
  IN IF h.err # "none" THEN FrameError(h.err, h.rest)
     ELSE LET hb == BList(h.b)
              ln == Uint32(SubSeq(hb, 2, 5))
          IN IF U32Less(U32(MaxFramePayload), ln)
             THEN FrameError("ErrShortBuffer", h.rest)
             ELSE LET body == ReadFull(h.rest, U32Int(ln))
                  IN IF U32Int(ln) > 0 /\ body.err # "none"
                     THEN FrameError(body.err, body.rest)
                     ELSE [t |-> hb[1], p |-> body.b, nil |-> FALSE,
                           err |-> "none", rest |-> body.rest]

\* ------------------------------------------------------ NewRelay: the users
RECURSIVE BuildUsers(_, _)
BuildUsers(list, acc) ==
  IF list = <<>> THEN acc
  ELSE LET u == Head(list)
       IN BuildUsers(Tail(list),
            IF u.Username # <<>>
            THEN [n \in DOMAIN acc \cup {u.Username} |->
                    IF n = u.Username THEN u.Secret ELSE acc[n]]
            ELSE acc)
NewRelayUsers(turnUsers) == BuildUsers(turnUsers, <<>>)

\* subtle.ConstantTimeCompare(x, y) = 1
ConstantTimeCompare(x, y) == IF Len(x) = Len(y) /\ x = y THEN 1 ELSE 0

\* The handshake's verdict on the first frame (relay.go 135-158):
\* "ok", "auth required", "auth failed", or "panic" (the slice expressions
\* payload[4 : 4+unLen] and payload[4+unLen:] out of range).
MaxUsernameLen == 256
AuthMalformedNoMax(p) ==
  \/ Len(p) < 4
  \/ LET unLen == Uint32(SubSeq(p, 1, 4))
     IN \/ unLen = U32(0)
        \/ U32Less(U32(Len(p)), U32Add(U32(4), unLen))
AuthMalformed(p) ==
  \/ Len(p) < 4
  \/ LET unLen == Uint32(SubSeq(p, 1, 4))
     IN \/ unLen = U32(0)
        \/ U32Less(U32(Len(p)), U32Add(U32(4), unLen))
        \/ U32Less(U32(MaxUsernameLen), unLen)
AuthSliceEnd(p) == U32Add(U32(4), Uint32(SubSeq(p, 1, 4)))
AuthUsername(p) == SubSeq(p, 5, U32Int(AuthSliceEnd(p)))
AuthSecret(p) == SubSeq(p, U32Int(AuthSliceEnd(p)) + 1, Len(p))

AuthVerdictNoLookup(U, f) ==
  IF f.t # "Auth" THEN "auth required"
  ELSE IF AuthMalformed(f.p) THEN "auth failed"
  ELSE IF U32Less(U32(Len(f.p)), AuthSliceEnd(f.p)) \/ U32Less(AuthSliceEnd(f.p), U32(4))
  THEN "panic"
  ELSE LET ok == AuthUsername(f.p) \in DOMAIN U
           expectedSecret == IF ok THEN U[AuthUsername(f.p)] ELSE <<>>
       IN IF ConstantTimeCompare(expectedSecret, AuthSecret(f.p)) # 1
          THEN "auth failed" ELSE "ok"
AuthVerdict(U, f) ==
  IF f.t # "Auth" THEN "auth required"
  ELSE IF AuthMalformed(f.p) THEN "auth failed"
  ELSE IF U32Less(U32(Len(f.p)), AuthSliceEnd(f.p)) \/ U32Less(AuthSliceEnd(f.p), U32(4))
  THEN "panic"
  ELSE LET ok == AuthUsername(f.p) \in DOMAIN U
           expectedSecret == IF ok THEN U[AuthUsername(f.p)] ELSE <<>>
       IN IF ~ok \/ ConstantTimeCompare(expectedSecret, AuthSecret(f.p)) # 1
          THEN "auth failed" ELSE "ok"

\* ------------------------------------------------- registration payloads
\* sessionID := string(payload[:min(36, len(payload))])
SessionID(payload) == SubSeq(payload, 1, Min2(SessionIDLen, Len(payload)))
\* What a bot puts in a Register frame: one payload too short, two identifiers.
RegPayloads == {<<1, 1, 1>>, <<1, 1, 1, 1>>, <<1, 1, 1, 2>>}
SessionIDs == {SessionID(p) : p \in {q \in RegPayloads : Len(q) >= MinRegPayload}}

\* --------------------------------------------------------------- variables
VARIABLES
  users,        \* Relay.users: username -> secret
  maxSessions,  \* Relay.maxSessions
  currentConns, \* Relay.currentConns
  pool,         \* Relay.portPool
  sessions,     \* Relay.sessions: session identifier -> session object
  sess,         \* the Session objects, by object number
  nsess,        \* number of Session objects created so far
  bot,          \* per bot connection: the handleBotConnection goroutine
  lis,          \* per session object: the listenDCCForSession goroutine
  panicked,     \* a goroutine panicked: the process is gone
  env,          \* what the peers do in this run (fixed by Init)
  wire          \* one byte stream and the frames written to / read from it

vars == <<users, maxSessions, currentConns, pool, sessions, sess, nsess,
          bot, lis, panicked, env, wire>>

\* The configuration of the relay runs: one credential, two ports.
BobName == <<1>>
BobSecret == <<2>>
TurnUsers == <<[Username |-> BobName, Secret |-> BobSecret]>>
AuthPayload(name, secret) == PutUint32(Len(name)) \o name \o secret

\* A goroutine's record: its position and its local variables, and history:
\* for a bot connection the first frame it sent (first), whether AuthOk was
\* written to it (authed), the last frame read in the registration loop (rd),
\* the last frame written to it (last), the Data bytes and EOF it sent as a
\* download source (sent, frames, eof) and the frames an upload relayed to
\* it (relayed); for a listener the bytes read from the user socket (read),
\* those queued (queued), whether the read side ended (eof), the bytes
\* written to the user socket (recv), whether a write failed (werr) and the
\* user connection (conn): "none" before Accept, "open", then "closed".
NoFrame == Frame("none", <<>>)
\* The stream: its unread bytes (buf), the frames WriteFrame put on it
\* (sent), whether a peer wrote bytes of its own (raw), and the results of the
\* ReadFrame calls so far (got).
NoWire == [buf |-> <<>>, sent |-> <<>>, raw |-> FALSE, got |-> <<>>]
NoBot ==
  [pc |-> "idle", up |-> TRUE, first |-> NoFrame, authed |-> FALSE,
   rd |-> NoFrame, last |-> NoFrame, regs |-> 0,
   sid |-> <<>>, kind |-> "none", port |-> 0, obj |-> Nil, sess |-> Nil,
   rm |-> Nil, sent |-> 0, frames |-> 0, eof |-> FALSE, relayed |-> <<>>]
NoListener ==
  [pc |-> "none", bound |-> FALSE, conn |-> "none", sess |-> Nil, rm |-> Nil,
   buf |-> <<>>, read |-> 0, queued |-> 0, eof |-> FALSE, werr |-> FALSE,
   recv |-> <<>>]

\* NewRelay (relay.go 50-75)
DefaultMaxSessions == 100
RelayInit(turnUsers, maxS, portMin, portMax) ==
  /\ users = NewRelayUsers(turnUsers)
  /\ maxSessions = IF maxS <= 0 THEN DefaultMaxSessions ELSE maxS
  /\ currentConns = 0
  /\ pool = newPortPool(portMin, portMax)
  /\ sessions = [id \in SessionIDs |-> Nil]
  /\ sess = [o \in SessObjs |-> NoSession]
  /\ nsess = 0
  /\ bot = [c \in Conns |-> NoBot]
  /\ lis = [o \in SessObjs |-> NoListener]
  /\ panicked = FALSE
  /\ wire = NoWire

\* The peers of a run: which bots connect, how many Data frames of which
\* payload length a bot sends, how many bytes a user client writes.  Either
\* two bots compete for the registry and the pool and carry at most
\* ContendedData frames/bytes each, or one bot carries a longer transfer.
Peers ==
  {[conns |-> {"c1", "c2"}, frames |-> ContendedData, payload |-> ContendedData,
    ubytes |-> ContendedData],
   [conns |-> {"c1"}, frames |-> MaxDataFrames, payload |-> MaxPayload,
    ubytes |-> MaxUserBytes]}

Init ==
  \E e \in Peers, maxS \in 1..Cardinality(Conns) :
     /\ env = e
     /\ maxS <= Cardinality(e.conns)
     /\ RelayInit(TurnUsers, maxS, DCCPortMin, DCCPortMax)

\* ------------------------------------------------------------- bot I/O
\* WriteFrame(conn, f): ok says whether the transport takes the frame; a
\* connection that failed once stays failed.
WriteFrame(b, f, ok) ==
  IF ok /\ b.up THEN [b EXCEPT !.last = f] ELSE [b EXCEPT !.up = FALSE]
Wrote(b, ok) == ok /\ b.up

\* The frames a bot may send first, and in the registration loop.
FirstFrames ==
  {Frame("Auth", AuthPayload(BobName, BobSecret)),
   Frame("Auth", AuthPayload(BobName, <<>>)),
   Frame("RegisterDownload", <<1, 1, 1, 1>>)}
RegFrames ==
  {Frame(t, p) : t \in {"RegisterDownload", "RegisterUpload"}, p \in RegPayloads}
  \cup {Frame("Data", <<>>)}

\* ----------------------------------------------- handleBotConnection
\* The goroutine has returned: its locals are gone, the history stays.
Gone(b) ==
  [NoBot EXCEPT !.pc = "closed", !.up = FALSE, !.sent = b.sent, !.eof = b.eof,
                !.relayed = b.relayed]

\* acceptBotConnections: go r.handleBotConnection(conn).  Connections are
\* interchangeable: they arrive in the order c1, c2.
Earlier(c) == IF c = "c3" THEN {"c1", "c2"} ELSE IF c = "c2" THEN {"c1"} ELSE {}
\* then  n := atomic.AddInt32(&r.currentConns, 1); n > maxSessions ?
Admit(c) ==
  /\ ~panicked /\ bot[c].pc = "idle" /\ c \in env.conns
  /\ \A d \in Earlier(c) : bot[d].pc # "idle"
  /\ currentConns' = currentConns + 1
  /\ bot' = [bot EXCEPT ![c].pc =
               IF currentConns + 1 > maxSessions THEN "reject" ELSE "auth"]
  /\ UNCHANGED <<users, maxSessions, pool, sessions, sess, nsess, lis, panicked, env, wire>>

\* atomic.AddInt32(&r.currentConns, -1); return  (over the limit)
Reject(c) ==
  /\ ~panicked /\ bot[c].pc = "reject"
  /\ currentConns' = currentConns - 1
  /\ bot' = [bot EXCEPT ![c] = Gone(bot[c])]
  /\ UNCHANGED <<users, maxSessions, pool, sessions, sess, nsess, lis, panicked, env, wire>>

\* The deferred atomic.AddInt32(&r.currentConns, -1) and conn.Close().
Leave(c) ==
  /\ ~panicked /\ bot[c].pc = "leave"
  /\ currentConns' = currentConns - 1
  /\ bot' = [bot EXCEPT ![c] = Gone(bot[c])]
  /\ UNCHANGED <<users, maxSessions, pool, sessions, sess, nsess, lis, panicked, env, wire>>

\* A ReadFrame on the bot connection fails, in the handshake or the
\* registration loop: return.
BotReadError(c) ==
  /\ ~panicked /\ bot[c].pc \in {"auth", "reg"}
  /\ bot' = [bot EXCEPT ![c].pc = "leave", ![c].up = FALSE]
  /\ UNCHANGED <<users, maxSessions, currentConns, pool, sessions, sess, nsess,
                 lis, panicked, env, wire>>

\* The handshake without the return after a refusal.
HandshakeNoReturn(c, f, wok) ==
  /\ ~panicked /\ bot[c].pc = "auth" /\ bot[c].up
  /\ LET v == AuthVerdict(users, f)
         b == [bot[c] EXCEPT !.first = f]
     IN /\ v # "panic"
        /\ bot' = [bot EXCEPT ![c] =
              [WriteFrame(b, IF v = "ok" THEN Frame("AuthOk", <<>>) ELSE ErrorFrame(v), wok)
                 EXCEPT !.pc = IF Wrote(b, wok) THEN "reg" ELSE "leave",
                        !.authed = (v = "ok" /\ Wrote(b, wok))]]
  /\ UNCHANGED <<users, maxSessions, currentConns, pool, sessions, sess, nsess,
                 lis, panicked, env, wire>>

\* The first frame f is read and answered (relay.go 128-158).
HandshakeStep(c, f, wok) ==
  /\ ~panicked /\ bot[c].pc = "auth" /\ bot[c].up
  /\ LET v == AuthVerdict(users, f)
         b == [bot[c] EXCEPT !.first = f]
     IN IF v = "panic"
        THEN /\ panicked' = TRUE
             /\ bot' = [bot EXCEPT ![c] = b]
        ELSE /\ panicked' = panicked
             /\ IF v = "ok"
                THEN bot' = [bot EXCEPT ![c] =
                       [WriteFrame(b, Frame("AuthOk", <<>>), wok)
                          EXCEPT !.pc = IF Wrote(b, wok) THEN "reg" ELSE "leave",
                                 !.authed = Wrote(b, wok)]]
                ELSE bot' = [bot EXCEPT ![c] =
                       [WriteFrame(b, ErrorFrame(v), wok) EXCEPT !.pc = "leave"]]
  /\ UNCHANGED <<users, maxSessions, currentConns, pool, sessions, sess, nsess, lis, env, wire>>

Handshake(c) ==
  /\ bot[c].pc = "auth"
  /\ \E f \in FirstFrames, wok \in BOOLEAN : HandshakeStep(c, f, wok)

\* Session objects NewSession may still create.
CanCreate ==
  nsess + Cardinality({c \in Conns : bot[c].pc = "insert"}) < MaxSess
\* Identifiers are interchangeable: the second one is named only after a
\* registration has named the first.
CanName(payload) ==
  \/ payload # <<1, 1, 1, 2>>
  \/ nsess > 0
  \/ \E c \in Conns : bot[c].pc = "insert"

\* if len(payload) < 4: the registration is malformed.
BadRegisterNever(payload) == FALSE
BadRegister(payload) == Len(payload) < MinRegPayload

\* allocateDCCPort returned an error: the Error frame is written and the loop
\* continues (relay.go 180-183, 202-205).
AllocFailedReturns(b, wok) ==
  [WriteFrame(b, ErrorFrame("no free port"), wok) EXCEPT !.pc = "leave"]
AllocFailed(b, wok) == WriteFrame(b, ErrorFrame("no free port"), wok)

\* One frame of the registration loop (relay.go 161-216), up to and including
\* the call of portPool.allocate in allocateDCCPort.  wok is the fate of the
\* Error frame the round writes; a successful allocate writes none.
Register(c) ==
  /\ ~panicked /\ bot[c].pc = "reg" /\ bot[c].up
  /\ bot[c].regs < MaxRegFrames
  /\ \E f \in RegFrames, wok \in BOOLEAN :
       LET b == [bot[c] EXCEPT !.regs = @ + 1, !.rd = f]
       IN IF f.t \notin {"RegisterDownload", "RegisterUpload"}
          THEN /\ bot' = [bot EXCEPT ![c] =
                    [WriteFrame(b, ErrorFrame("unknown message type"), wok)
                       EXCEPT !.pc = "leave"]]
               /\ pool' = pool
          ELSE IF BadRegister(f.p)
          THEN /\ bot' = [bot EXCEPT ![c] =
                    WriteFrame(b, ErrorFrame(IF f.t = "RegisterDownload"
                                            THEN "bad RegisterDownload"
                                            ELSE "bad RegisterUpload"), wok)]
               /\ pool' = pool
          ELSE /\ CanCreate /\ CanName(f.p)
               /\ \E r \in allocate(pool) :
                    IF r.ok
                    THEN /\ wok
                         /\ pool' = r.pool
                         /\ bot' = [bot EXCEPT ![c] =
                              [b EXCEPT !.pc = "insert", !.sid = SessionID(f.p),
                                        !.port = r.port,
                                        !.kind = IF f.t = "RegisterDownload"
                                                 THEN "download" ELSE "upload"]]
                    ELSE /\ pool' = pool
                         /\ bot' = [bot EXCEPT ![c] = AllocFailed(b, wok)]
  /\ UNCHANGED <<users, maxSessions, currentConns, sessions, sess, nsess, lis,
                 panicked, env, wire>>

\* ------------------------------------------------------- allocateDCCPort
DeleteSession(reg, id) == [reg EXCEPT ![id] = Nil]

\* sess := NewSession(...); r.sessions[sessionID] = sess   (under sessionsMu)
PutSession(reg, id, o) == [reg EXCEPT ![id] = o]

Insert(c) ==
  /\ ~panicked /\ bot[c].pc = "insert"
  /\ LET o == nsess + 1
     IN /\ nsess' = o
        /\ sess' = [sess EXCEPT ![o] =
                      [NewSession(bot[c].sid, bot[c].kind, bot[c].port)
                         EXCEPT !.owner = c]]
        /\ sessions' = PutSession(sessions, bot[c].sid, o)
        /\ bot' = [bot EXCEPT ![c].pc = "listen", ![c].obj = o]
  /\ UNCHANGED <<users, maxSessions, currentConns, pool, lis, panicked, env, wire>>

\* A listener of this relay is still bound to the port.
PortBound(port) == \E o \in SessObjs : lis[o].bound /\ sess[o].Port = port

\* tls.Listen on the port: on success  go r.listenDCCForSession(ln, sessionID).
Listen(c) ==
  /\ ~panicked /\ bot[c].pc = "listen"
  /\ \E ok \in BOOLEAN :
       /\ ok => ~PortBound(bot[c].port)
       /\ IF ok
          THEN /\ lis' = [lis EXCEPT ![bot[c].obj] =
                            [NoListener EXCEPT !.pc = "accept", !.bound = TRUE]]
               /\ bot' = [bot EXCEPT ![c].pc = "portalloc"]
          ELSE /\ lis' = lis
               /\ bot' = [bot EXCEPT ![c].pc = "rb_release"]
  /\ UNCHANGED <<users, maxSessions, currentConns, pool, sessions, sess, nsess,
                 panicked, env, wire>>

\* Listen failed: r.portPool.release(port)
RollbackRelease(c) ==
  /\ ~panicked /\ bot[c].pc = "rb_release"
  /\ pool' = release(pool, bot[c].port)
  /\ sess' = [sess EXCEPT ![bot[c].obj].rollbacks = @ + 1]
  /\ bot' = [bot EXCEPT ![c].pc = "rb_delete"]
  /\ UNCHANGED <<users, maxSessions, currentConns, sessions, nsess, lis,
                 panicked, env, wire>>

\* ... delete(r.sessions, sessionID); return 0, err; the caller reports Error
\* and reads the next frame.
RollbackDelete(c) ==
  /\ ~panicked /\ bot[c].pc = "rb_delete"
  /\ sessions' = DeleteSession(sessions, bot[c].sid)
  /\ \E wok \in BOOLEAN :
       bot' = [bot EXCEPT ![c] =
                 [WriteFrame(bot[c], ErrorFrame("listen failed"), wok)
                    EXCEPT !.pc = "reg", !.obj = Nil, !.port = 0,
                           !.kind = "none", !.sid = <<>>]]
  /\ UNCHANGED <<users, maxSessions, currentConns, pool, sess, nsess, lis, panicked, env, wire>>

\* WriteFrame(conn, MsgPortAlloc, port), on failure return; then the relay
\* loop's first statement: sess, ok := r.sessions[sessionID]; if !ok return.
PortAlloc(c) ==
  /\ ~panicked /\ bot[c].pc = "portalloc"
  /\ \E wok \in BOOLEAN :
       LET b == WriteFrame(bot[c], Frame("PortAlloc", PutUint32(bot[c].port)), wok)
           s == sessions[bot[c].sid]
       IN bot' = [bot EXCEPT ![c] =
                    IF ~Wrote(bot[c], wok) \/ s = Nil
                    THEN [b EXCEPT !.pc = "leave"]
                    ELSE [b EXCEPT !.sess = s,
                            !.pc = IF bot[c].kind = "download" THEN "dl" ELSE "ul"]]
  /\ UNCHANGED <<users, maxSessions, currentConns, pool, sessions, sess, nsess,
                 lis, panicked, env, wire>>

\* --------------------------------------------------- relayDownloadToUser
\* One round of the download loop: ReadFrame on the bot connection, then
\*   a read error or an unexpected type: sess.Close(); return
\*   Data: select { case sess.BotStream <- payload:  case <-sess.Done: return }
\*         (a send on a closed channel panics)
\*   EOF:  close(sess.BotStream)   (closing a closed channel panics)
DownloadFrame(c) ==
  /\ ~panicked /\ bot[c].pc = "dl"
  /\ LET s == bot[c].sess
     IN \/ /\ sess' = Close(sess, s)
           /\ bot' = [bot EXCEPT ![c].pc = "leave", ![c].up = FALSE]
           /\ panicked' = panicked
        \/ /\ bot[c].up
           /\ sess' = Close(sess, s)
           /\ bot' = [bot EXCEPT ![c].pc = "leave"]
           /\ panicked' = panicked
        \/ /\ bot[c].up /\ bot[c].frames < env.frames
           /\ \E k \in 0..env.payload :
                LET b == [bot[c] EXCEPT !.sent = @ + k, !.frames = @ + 1]
                IN \/ /\ ~sess[s].BotStreamClosed
                      /\ Len(sess[s].BotStream) < BotStreamCap
                      /\ sess' = [sess EXCEPT ![s].BotStream =
                                    Append(@, Run(bot[c].sent, k))]
                      /\ bot' = [bot EXCEPT ![c] = b]
                      /\ panicked' = panicked
                   \/ /\ sess[s].BotStreamClosed
                      /\ panicked' = TRUE
                      /\ bot' = [bot EXCEPT ![c] = b]
                      /\ sess' = sess
                   \/ /\ sess[s].Done
                      /\ bot' = [bot EXCEPT ![c] = [b EXCEPT !.pc = "leave"]]
                      /\ UNCHANGED <<sess, panicked>>
        \/ /\ bot[c].up
           /\ IF sess[s].BotStreamClosed
              THEN /\ panicked' = TRUE
                   /\ UNCHANGED <<sess, bot>>
              ELSE /\ sess' = [sess EXCEPT ![s].BotStreamClosed = TRUE]
                   /\ bot' = [bot EXCEPT ![c].pc = "dl_close", ![c].eof = TRUE]
                   /\ panicked' = panicked
  /\ UNCHANGED <<users, maxSessions, currentConns, pool, sessions, nsess, lis, env, wire>>

\* case MsgEOF, after close(sess.BotStream): sess.Close(); return
DownloadClose(c) ==
  /\ ~panicked /\ bot[c].pc = "dl_close"
  /\ sess' = Close(sess, bot[c].sess)
  /\ bot' = [bot EXCEPT ![c].pc = "leave"]
  /\ UNCHANGED <<users, maxSessions, currentConns, pool, sessions, nsess, lis,
                 panicked, env, wire>>

\* ---------------------------------------------------------- removeSession
\* removeSession(sessionID) is three steps: (1) under sessionsMu, look the
\* identifier up and delete it; if it was there, (2) sess.Close() and
\* (3) r.portPool.release(sess.Port).
RemoveRelease(S, o) == [S EXCEPT ![o].releases = @ + 1]

BotRemoveTake(c) ==
  /\ ~panicked /\ bot[c].pc = "rm_take"
  /\ bot' = [bot EXCEPT ![c].rm = sessions[bot[c].sid],
                        ![c].pc = IF sessions[bot[c].sid] = Nil THEN "leave"
                                  ELSE "rm_close"]
  /\ sessions' = DeleteSession(sessions, bot[c].sid)
  /\ UNCHANGED <<users, maxSessions, currentConns, pool, sess, nsess, lis, panicked, env, wire>>

BotRemoveClose(c) ==
  /\ ~panicked /\ bot[c].pc = "rm_close"
  /\ sess' = Close(sess, bot[c].rm)
  /\ bot' = [bot EXCEPT ![c].pc = "rm_release"]
  /\ UNCHANGED <<users, maxSessions, currentConns, pool, sessions, nsess, lis,
                 panicked, env, wire>>

BotRemoveRelease(c) ==
  /\ ~panicked /\ bot[c].pc = "rm_release"
  /\ IF sess[bot[c].rm].Port > 0
     THEN /\ pool' = release(pool, sess[bot[c].rm].Port)
          /\ sess' = RemoveRelease(sess, bot[c].rm)
     ELSE UNCHANGED <<pool, sess>>
  /\ bot' = [bot EXCEPT ![c].pc = "leave"]
  /\ UNCHANGED <<users, maxSessions, currentConns, sessions, nsess, lis, panicked, env, wire>>

\* ---------------------------------------------------- relayUploadFromUser
\* The bytes a queued chunk denotes when it is read: the chunk is the slice
\* buf[:n:n] of its listener's read buffer, not a copy, so it shows whatever
\* the listener's later conn.Read calls have written there by then.
ChunkBytes(item) == SubSeq(lis[item.o].buf, 1, item.n)

\* WriteFrame of a relayed frame: the bot's view of the upload.
RelayFrame(b, f, ok) ==
  IF ok /\ b.up THEN [WriteFrame(b, f, ok) EXCEPT !.relayed = Append(@, f)]
  ELSE WriteFrame(b, f, ok)

\* One round of the upload loop:
\*   select { case data, ok := <-sess.UserConn: ...  case <-sess.Done: ... }
\* a chunk goes out as a Data frame; the closed queue as an EOF frame.
UploadSelect(c) ==
  /\ ~panicked /\ bot[c].pc = "ul"
  /\ LET s == bot[c].sess
     IN \/ /\ sess[s].UserConn # <<>>
           /\ sess' = [sess EXCEPT ![s].UserConn = Tail(@)]
           /\ \E wok \in BOOLEAN :
                bot' = [bot EXCEPT ![c] =
                  [RelayFrame(bot[c],
                              Frame("Data", ChunkBytes(Head(sess[s].UserConn))), wok)
                     EXCEPT !.pc = IF Wrote(bot[c], wok) THEN "ul" ELSE "rm_take"]]
        \/ /\ sess[s].UserConn = <<>> /\ sess[s].UserConnClosed
           /\ \E wok \in BOOLEAN :
                bot' = [bot EXCEPT ![c] =
                  [RelayFrame(bot[c], Frame("EOF", <<>>), wok)
                     EXCEPT !.pc = "rm_take"]]
           /\ sess' = sess
        \/ /\ sess[s].Done
           /\ bot' = [bot EXCEPT ![c].pc = "rm_take"]
           /\ sess' = sess
  /\ UNCHANGED <<users, maxSessions, currentConns, pool, sessions, nsess, lis,
                 panicked, env, wire>>

\* ----------------------------------------------------- listenDCCForSession
\* The deferred conn.Close() and ln.Close(): the goroutine has returned.
Returned(l) ==
  [l EXCEPT !.pc = "done", !.bound = FALSE, !.sess = Nil, !.rm = Nil,
            !.conn = IF @ = "open" THEN "closed" ELSE @]

\* conn, err := ln.Accept() returns a user connection; then
\* sess, ok := r.sessions[sessionID]; if !ok return; branch on sess.Kind.
Accept(o) ==
  /\ ~panicked /\ lis[o].pc = "accept"
  /\ LET s == sessions[sess[o].ID]
     IN lis' = [lis EXCEPT ![o] =
                  IF s = Nil THEN Returned([lis[o] EXCEPT !.conn = "open"])
                  ELSE [lis[o] EXCEPT !.conn = "open", !.sess = s,
                          !.pc = IF sess[s].Kind = "download" THEN "copy" ELSE "ul"]]
  /\ UNCHANGED <<users, maxSessions, currentConns, pool, sessions, sess, nsess,
                 bot, panicked, env, wire>>

\* ln.Accept() fails: r.removeSession(sessionID), its first step.
AcceptError(o) ==
  /\ ~panicked /\ lis[o].pc = "accept"
  /\ lis' = [lis EXCEPT ![o] =
               IF sessions[sess[o].ID] = Nil THEN Returned(lis[o])
               ELSE [lis[o] EXCEPT !.rm = sessions[sess[o].ID], !.pc = "rm_close"]]
  /\ sessions' = DeleteSession(sessions, sess[o].ID)
  /\ UNCHANGED <<users, maxSessions, currentConns, pool, sess, nsess, bot, panicked, env, wire>>

ListenerRemoveClose(o) ==
  /\ ~panicked /\ lis[o].pc = "rm_close"
  /\ sess' = Close(sess, lis[o].rm)
  /\ lis' = [lis EXCEPT ![o].pc = "rm_release"]
  /\ UNCHANGED <<users, maxSessions, currentConns, pool, sessions, nsess, bot,
                 panicked, env, wire>>

ListenerRemoveRelease(o) ==
  /\ ~panicked /\ lis[o].pc = "rm_release"
  /\ IF sess[lis[o].rm].Port > 0
     THEN /\ pool' = release(pool, sess[lis[o].rm].Port)
          /\ sess' = RemoveRelease(sess, lis[o].rm)
     ELSE UNCHANGED <<pool, sess>>
  /\ lis' = [lis EXCEPT ![o] = Returned(lis[o])]
  /\ UNCHANGED <<users, maxSessions, currentConns, sessions, nsess, bot, panicked, env, wire>>

\* ChanReader.Read(p): hand out the first len(p) bytes of the current chunk
\* and keep the rest.  The pieces one chunk reaches io.Copy's Write in:
ChanReaderTake(cur, size) == SubSeq(cur, 1, Min2(size, Len(cur)))
ChanReaderDropRest(cur, size) == <<>>
ChanReaderRest(cur, size) == SubSeq(cur, Min2(size, Len(cur)) + 1, Len(cur))
RECURSIVE Pieces(_, _)
Pieces(cur, size) ==
  IF cur = <<>> THEN <<>>
  ELSE <<ChanReaderTake(cur, size)>> \o Pieces(ChanReaderRest(cur, size), size)

\* One chunk through io.Copy(dest, &ChanReader{Ch: sess.BotStream}): Read
\* receives from the channel (nothing else wakes it), the pieces are written
\* to the user socket until a write fails; a closed and drained channel is
\* io.EOF and ends the copy.
Copy(o) ==
  /\ ~panicked /\ lis[o].pc = "copy"
  /\ LET s == lis[o].sess
     IN \/ /\ sess[s].BotStream # <<>>
           /\ sess' = [sess EXCEPT ![s].BotStream = Tail(@)]
           /\ LET ps == Pieces(Head(sess[s].BotStream), CopyBuf)
              IN \E j \in 0..Len(ps) :
                   lis' = [lis EXCEPT
                     ![o].recv = @ \o Flatten(SubSeq(ps, 1, j)),
                     ![o].werr = (j < Len(ps)),
                     ![o].pc = IF j < Len(ps) THEN "close" ELSE "copy"]
        \/ /\ sess[s].BotStream = <<>> /\ sess[s].BotStreamClosed
           /\ lis' = [lis EXCEPT ![o].pc = "close"]
           /\ sess' = sess
  /\ UNCHANGED <<users, maxSessions, currentConns, pool, sessions, nsess, bot,
                 panicked, env, wire>>

\* sess.Close() and return: after io.Copy, and after close(sess.UserConn).
ListenerClose(o) ==
  /\ ~panicked /\ lis[o].pc = "close"
  /\ sess' = Close(sess, lis[o].sess)
  /\ lis' = [lis EXCEPT ![o] = Returned(lis[o])]
  /\ UNCHANGED <<users, maxSessions, currentConns, pool, sessions, nsess, bot,
                 panicked, env, wire>>

\* n, err := conn.Read(buf): the bytes read land at the start of the one
\* buffer the loop allocated before its first round.
ReadInto(buf, data) == data \o SubSeq(buf, Len(data) + 1, Len(buf))

\* One round of the upload listener loop.  Read returns the next n bytes of
\* the user's stream, then
\*   select { case sess.UserConn <- buf[:n:n]:  case <-sess.Done: return }
\* or Read returns an error (EOF included): close(sess.UserConn).
Upload(o) ==
  /\ ~panicked /\ lis[o].pc = "ul"
  /\ LET s == lis[o].sess
     IN \/ \E n \in 1..Min2(UploadBufSize, env.ubytes - lis[o].read) :
             LET l == [lis[o] EXCEPT !.buf = ReadInto(@, Run(lis[o].read, n)),
                                     !.read = @ + n]
             IN \/ /\ ~sess[s].UserConnClosed
                   /\ Len(sess[s].UserConn) < UserConnCap
                   /\ sess' = [sess EXCEPT ![s].UserConn =
                                 Append(@, [o |-> o, n |-> n])]
                   /\ lis' = [lis EXCEPT ![o] = [l EXCEPT !.queued = @ + n]]
                   /\ panicked' = panicked
                \/ /\ sess[s].UserConnClosed
                   /\ panicked' = TRUE
                   /\ lis' = [lis EXCEPT ![o] = l]
                   /\ sess' = sess
                \/ /\ sess[s].Done
                   /\ lis' = [lis EXCEPT ![o] = Returned(l)]
                   /\ UNCHANGED <<sess, panicked>>
        \/ IF sess[s].UserConnClosed
           THEN /\ panicked' = TRUE
                /\ UNCHANGED <<sess, lis>>
           ELSE /\ sess' = [sess EXCEPT ![s].UserConnClosed = TRUE]
                /\ lis' = [lis EXCEPT ![o].pc = "close", ![o].eof = TRUE]
                /\ panicked' = panicked
  /\ UNCHANGED <<users, maxSessions, currentConns, pool, sessions, nsess, bot, env, wire>>

\* ------------------------------------------------------------ the relay
\* The steps of an admitted connection, and of any connection.
BotRun(c) ==
  \/ Admit(c) \/ Leave(c) \/ BotReadError(c)
  \/ Handshake(c) \/ Register(c) \/ Insert(c) \/ Listen(c)
  \/ RollbackRelease(c) \/ RollbackDelete(c) \/ PortAlloc(c)
  \/ DownloadFrame(c) \/ DownloadClose(c) \/ UploadSelect(c)
  \/ BotRemoveTake(c) \/ BotRemoveClose(c) \/ BotRemoveRelease(c)
BotStep(c) == BotRun(c) \/ Reject(c)

ListenerStep(o) ==
  \/ Accept(o) \/ AcceptError(o)
  \/ ListenerRemoveClose(o) \/ ListenerRemoveRelease(o)
  \/ Copy(o) \/ ListenerClose(o) \/ Upload(o)

Next == (\E c \in Conns : BotStep(c)) \/ (\E o \in SessObjs : ListenerStep(o))

Spec == Init /\ [][Next]_vars

\* One bot and its transfer: the relay with a single connection, which is
\* always admitted.
TransferInit ==
  /\ env = [conns |-> {"c1"}, frames |-> MaxDataFrames, payload |-> MaxPayload,
            ubytes |-> MaxUserBytes]
  /\ RelayInit(TurnUsers, 1, DCCPortMin, DCCPortMax)
TransferNext == BotRun("c1") \/ (\E o \in SessObjs : ListenerStep(o))
TransferSpec == TransferInit /\ [][TransferNext]_vars

\* ------------------------------------------------- the port pool alone
\* Callers that only allocate and release: a caller holds at most one port
\* (port), has called allocate regs times, and is "idle", "holding" or
\* "refused" (its last allocate failed).  release(port) may be invoked by any
\* caller for any port; it ends every holding of that port.
PoolInit ==
  /\ env = [conns |-> Conns, frames |-> 0, payload |-> 0, ubytes |-> 0]
  /\ \E r \in PortRanges : RelayInit(TurnUsers, 0, r[1], r[2])

PoolAllocate(c) ==
  /\ bot[c].pc # "holding" /\ bot[c].regs < MaxRegFrames
  /\ \E r \in allocate(pool) :
       /\ pool' = r.pool
       /\ bot' = [bot EXCEPT ![c].regs = @ + 1, ![c].port = r.port,
                             ![c].pc = IF r.ok THEN "holding" ELSE "refused"]
  /\ UNCHANGED <<users, maxSessions, currentConns, sessions, sess, nsess, lis,
                 panicked, env, wire>>

PoolRelease(c, port) ==
  /\ pool' = release(pool, port)
  /\ bot' = [d \in Conns |->
               IF bot[d].pc = "holding" /\ bot[d].port = port
               THEN [bot[d] EXCEPT !.pc = "idle", !.port = 0] ELSE bot[d]]
  /\ UNCHANGED <<users, maxSessions, currentConns, sessions, sess, nsess, lis,
                 panicked, env, wire>>

PoolNext ==
  \E c \in Conns :
    \/ PoolAllocate(c)
    \/ \E port \in DCCPortMin..DCCPortMax : PoolRelease(c, port)
PoolSpec == PoolInit /\ [][PoolNext]_vars

\* ------------------------------------------------- registration alone
\* Two bots that have completed the handshake compete for the pool and the
\* registry; sessions end only through a failed Listen or a failed Accept.
Registrants == {"c1", "c2"}
RegInit ==
  /\ env = [conns |-> Registrants, frames |-> ContendedData,
            payload |-> ContendedData, ubytes |-> ContendedData]
  /\ \E r \in PortRanges :
       /\ users = NewRelayUsers(TurnUsers)
       /\ maxSessions = Cardinality(Registrants)
       /\ currentConns = Cardinality(Registrants)
       /\ pool = newPortPool(r[1], r[2])
  /\ sessions = [id \in SessionIDs |-> Nil]
  /\ sess = [o \in SessObjs |-> NoSession]
  /\ nsess = 0
  /\ bot = [c \in Conns |->
             IF c \in Registrants
             THEN [NoBot EXCEPT !.pc = "reg", !.authed = TRUE,
                     !.first = Frame("Auth", AuthPayload(BobName, BobSecret)),
                     !.last = Frame("AuthOk", <<>>)]
             ELSE NoBot]
  /\ lis = [o \in SessObjs |-> NoListener]
  /\ panicked = FALSE
  /\ wire = NoWire
RegNext ==
  \/ \E c \in Registrants :
        \/ Register(c) \/ Insert(c) \/ Listen(c)
        \/ RollbackRelease(c) \/ RollbackDelete(c) \/ PortAlloc(c)
  \/ \E o \in SessObjs :
        AcceptError(o) \/ ListenerRemoveClose(o) \/ ListenerRemoveRelease(o)
RegSpec == RegInit /\ [][RegNext]_vars

\* ------------------------------------------------- admission alone
\* Connections that arrive, are admitted or turned away, and end before
\* their first frame: the counter currentConns under every interleaving.
AdmitInit ==
  /\ env = [conns |-> Conns, frames |-> 0, payload |-> 0, ubytes |-> 0]
  /\ \E maxS \in 1..Cardinality(Conns) :
       RelayInit(TurnUsers, maxS, DCCPortMin, DCCPortMax)
AdmitNext ==
  \E c \in Conns : Admit(c) \/ Reject(c) \/ BotReadError(c) \/ Leave(c)
AdmitSpec == AdmitInit /\ [][AdmitNext]_vars

\* ------------------------------------------------- the handshake alone
\* The credential sets the relay is configured with, and the first frames a
\* peer may send: every payload over AuthBytes up to MaxAuthPayload bytes.
AuthConfigs ==
  {<<>>,
   <<[Username |-> <<>>, Secret |-> BobSecret]>>,
   <<[Username |-> BobName, Secret |-> BobSecret]>>,
   <<[Username |-> BobName, Secret |-> <<>>]>>}
AuthBytes == {0, 1, 2, 252, 255}
AuthPayloads == UNION {[1..n -> AuthBytes] : n \in 0..MaxAuthPayload}
AuthFrames == {Frame(t, p) : t \in {"Auth", "RegisterDownload"}, p \in AuthPayloads}

AuthInit ==
  /\ env = [conns |-> {"c1"}, frames |-> 0, payload |-> 0, ubytes |-> 0]
  /\ \E cfg \in AuthConfigs : RelayInit(cfg, 0, DCCPortMin, DCCPortMax)
AuthNext ==
  \/ Admit("c1") \/ BotReadError("c1") \/ Leave("c1")
  \/ /\ bot["c1"].pc = "auth"
     /\ \E f \in AuthFrames, wok \in BOOLEAN : HandshakeStep("c1", f, wok)
AuthSpec == AuthInit /\ [][AuthNext]_vars

\* ------------------------------------------------- the frame codec alone
\* One stream between a writer and a reader.  The writer calls WriteFrame
\* with a type and a payload, or is a peer that writes a header declaring any
\* length followed by bytes of its choice; the reader calls ReadFrame when
\* the stream holds unread bytes (on an empty open stream it blocks) and
\* stops at the first error, as every caller of ReadFrame does.
MsgTypes == {0, 1, 4, 255}
FramePayloads ==
  {<<>>, <<<<7, 1>>>>, <<<<1, 1>>, <<2, 1>>>>, <<<<0, 5>>>>,
   <<<<9, MaxFramePayload>>>>, <<<<9, MaxFramePayload - 1>>, <<3, 1>>>>}
DeclaredLengths ==
  {<<hi, lo>> : hi \in {0, U32(MaxFramePayload)[1] - 1, U32(MaxFramePayload)[1],
                         U32(MaxFramePayload)[1] + 1, MaxUint16},
                lo \in {0, 1, MaxUint16}}
RawBodies == {<<>>, <<<<9, 1>>>>, <<<<9, MaxFramePayload>>>>}
Header(msgType, ln) ==
  BOf(<<msgType, ln[1] \div 256, ln[1] % 256, ln[2] \div 256, ln[2] % 256>>)
Writes == Len(wire.sent) + (IF wire.raw THEN 1 ELSE 0)

FrameInit ==
  /\ env = [conns |-> {}, frames |-> 0, payload |-> 0, ubytes |-> 0]
  /\ RelayInit(TurnUsers, 0, DCCPortMin, DCCPortMax)
FrameWrite ==
  /\ ~wire.raw /\ Writes < MaxWireFrames
  /\ \E t \in MsgTypes, p \in FramePayloads :
       wire' = [wire EXCEPT !.buf = BCat(@, WriteFrameBytes(t, p)),
                            !.sent = Append(@, [t |-> t, p |-> p])]
  /\ UNCHANGED <<users, maxSessions, currentConns, pool, sessions, sess, nsess,
                 bot, lis, panicked, env>>
RawWrite ==
  /\ ~wire.raw /\ Writes < MaxWireFrames
  /\ \E ln \in DeclaredLengths, body \in RawBodies :
       wire' = [wire EXCEPT !.buf = BCat(@, BCat(Header(4, ln), body)),
                            !.raw = TRUE]
  /\ UNCHANGED <<users, maxSessions, currentConns, pool, sessions, sess, nsess,
                 bot, lis, panicked, env>>
FrameRead ==
  /\ wire.buf # <<>>
  /\ \A i \in 1..Len(wire.got) : wire.got[i].err = "none"
  /\ LET r == ReadFrame(wire.buf)
     IN wire' = [wire EXCEPT !.buf = r.rest,
                   !.got = Append(@, [t |-> r.t, p |-> r.p, nil |-> r.nil,
                                      err |-> r.err])]
  /\ UNCHANGED <<users, maxSessions, currentConns, pool, sessions, sess, nsess,
                 bot, lis, panicked, env>>
FrameNext == FrameWrite \/ RawWrite \/ FrameRead
FrameSpec == FrameInit /\ [][FrameNext]_vars

\* -------------------------------------------------------------- properties
\* The session object has an identifier no other session object carries.
Fresh(o) == \A p \in SessObjs \ {o} : sess[p].ID # sess[o].ID

\* C1: end-to-end download.  For a download session with a fresh identifier
\* the bytes written to the user socket are always a prefix of the Data bytes
\* its bot sent; once the bot has sent EOF the listener draining the queue is
\* never blocked; and when the bot has sent EOF and the listener has finished
\* with a user connected and no write failed, the user socket has received
\* exactly the bytes sent, in order, and the relay has closed the connection.
C1_DownloadEndToEnd ==
  \A o \in SessObjs :
    (sess[o].Kind = "download" /\ Fresh(o)) =>
      LET b == bot[sess[o].owner]
      IN /\ IsPrefix(lis[o].recv, Run(0, b.sent))
         /\ (b.eof /\ lis[o].pc = "copy") =>
               (sess[o].BotStream # <<>> \/ sess[o].BotStreamClosed)
         /\ (b.eof /\ lis[o].pc = "done" /\ lis[o].conn # "none" /\ ~lis[o].werr) =>
               (lis[o].recv = Run(0, b.sent) /\ lis[o].conn = "closed")

\* A download of two full Data frames has been delivered whole and closed.
C1_Witness ==
  \E o \in SessObjs :
    /\ sess[o].Kind = "download" /\ Fresh(o)
    /\ bot[sess[o].owner].eof /\ bot[sess[o].owner].sent >= 2 * MaxPayload
    /\ lis[o].pc = "done" /\ lis[o].conn = "closed" /\ ~lis[o].werr
    /\ lis[o].recv = Run(0, bot[sess[o].owner].sent)

\* The Data bytes of a sequence of frames, in order.
DataBytes(fs) ==
  Flatten([i \in 1..Len(fs) |-> IF fs[i].t = "Data" THEN fs[i].p ELSE <<>>])

\* Both tasks of the session have returned: its listener and the connection
\* handler that registered it.
Finished(o) == lis[o].pc = "done" /\ bot[sess[o].owner].pc = "closed"

\* C2: end-to-end upload.  When the user has written its bytes and closed the
\* socket and the relay loop of the session has ended without a failed write
\* to the bot, the bot has been sent Data frames carrying as many bytes as
\* were queued, followed by exactly one EOF frame.
C2_UploadEndToEnd ==
  \A o \in SessObjs :
    LET b == bot[sess[o].owner]
        n == Len(b.relayed)
    IN (sess[o].Kind = "upload" /\ Fresh(o) /\ lis[o].eof /\ lis[o].queued >= 1
        /\ b.pc = "leave" /\ b.up /\ b.sess = o) =>
         /\ n >= 1 /\ b.relayed[n].t = "EOF"
         /\ \A i \in 1..(n - 1) : b.relayed[i].t = "Data"
         /\ Len(DataBytes(b.relayed)) = lis[o].queued

\* C3: within one session the bytes delivered to the sink are at every moment
\* a prefix of the bytes received from the source: the user socket's bytes of
\* the Data bytes the bot sent (download), the Data payloads sent to the bot
\* of the bytes read from the user socket (upload).
C3_DeliveredIsPrefix ==
  \A o \in SessObjs :
    (Fresh(o) /\ lis[o].pc # "none") =>
      /\ sess[o].Kind = "download" =>
           IsPrefix(lis[o].recv, Run(0, bot[sess[o].owner].sent))
      /\ sess[o].Kind = "upload" =>
           IsPrefix(DataBytes(bot[sess[o].owner].relayed), Run(0, lis[o].read))

\* C4: a download session both of whose tasks have returned (so a terminal
\* condition has occurred and nothing is left to run for it) is out of the
\* registry and its port is out of the pool's used-set.
C4_DownloadTornDown ==
  \A o \in SessObjs :
    (sess[o].Kind = "download" /\ Fresh(o) /\ Finished(o)) =>
      (sessions[sess[o].ID] # o /\ sess[o].Port \notin pool.used)

\* C5: an upload session both of whose tasks have returned is out of the
\* registry, its port is out of the used-set and its Done is closed.
C5_UploadTornDown ==
  \A o \in SessObjs :
    (sess[o].Kind = "upload" /\ Fresh(o) /\ Finished(o)) =>
      (sessions[sess[o].ID] # o /\ sess[o].Port \notin pool.used /\ sess[o].Done)

\* C6: teardown is idempotent.  However the teardown operations interleave,
\* Done of a session is never closed more than once and the session's port
\* is never released to the pool more than once.
C6_TeardownAtMostOnce ==
  \A o \in SessObjs :
    /\ sess[o].closes <= 1
    /\ sess[o].releases + sess[o].rollbacks <= 1

\* C7: once Done has fired, no task stays blocked on a queue of the session:
\* the listener draining BotStream, when no relay loop is left to feed or
\* close the queue, still has a step to take.
C7_CancelUnblocks ==
  \A o \in SessObjs :
    (/\ lis[o].pc = "copy"
     /\ sess[lis[o].sess].Done
     /\ \A c \in Conns : bot[c].sess # lis[o].sess) =>
       (sess[lis[o].sess].BotStream # <<>> \/ sess[lis[o].sess].BotStreamClosed)

\* C9: a registration never replaces the registry entry of an identifier
\* that is still present: an entry only goes from absent to present or from
\* present to absent.
C9_NoReplace ==
  [][\A id \in SessionIDs :
       sessions[id] # Nil => sessions'[id] \in {sessions[id], Nil}]_vars

\* The ports callers of the pool hold: handed out and not released since.
Held == {bot[c].port : c \in {d \in Conns : bot[d].pc = "holding"}}

\* C8: the pool never hands out a port that is in use.  No two callers hold
\* the same port, every port held lies in [min, max], every port allocate can
\* return next lies in [min, max] and is held by nobody; over a single-port
\* range allocate succeeds exactly when the port is not held (so it fails
\* after one success until release is invoked, and succeeds again after).
C8_PoolNeverDoubleAllocates ==
  /\ \A c \in Conns, d \in Conns :
       (c # d /\ bot[c].pc = "holding" /\ bot[d].pc = "holding") =>
          bot[c].port # bot[d].port
  /\ \A q \in Held : pool.min <= q /\ q <= pool.max
  /\ \A r \in allocate(pool) :
       r.ok => (pool.min <= r.port /\ r.port <= pool.max /\ r.port \notin Held)
  /\ pool.min = pool.max =>
       (allocate(pool) # {} /\ \A r \in allocate(pool) : r.ok <=> (Held = {}))

\* Over a single-port range one caller holds the port after a second
\* successful allocate (the port was released in between) and the other
\* caller has just been refused.
C8_Witness ==
  /\ pool.min = pool.max
  /\ bot["c2"].pc = "holding" /\ bot["c2"].regs = 2
  /\ bot["c1"].pc = "refused"

PostAuth ==
  {"reg", "insert", "listen", "rb_release", "rb_delete", "portalloc", "dl",
   "dl_close", "ul", "rm_take", "rm_close", "rm_release"}

\* C11: the handshake precedes everything else.  A connection that is in the
\* registration loop or beyond has been sent AuthOk; a connection that has
\* not been sent AuthOk has read no registration frame, holds no port and has
\* registered no session; a first frame that is not Auth is answered with
\* Error "auth required" (unless the write fails) and the handler goes
\* straight to its return; and AuthOk once sent stays sent until the
\* connection is closed.
C11_HandshakeFirst ==
  /\ [](\A c \in Conns :
          /\ bot[c].pc \in PostAuth => bot[c].authed
          /\ (~bot[c].authed /\ bot[c].pc # "closed") =>
               /\ bot[c].regs = 0 /\ bot[c].rd = NoFrame
               /\ bot[c].port = 0 /\ bot[c].obj = Nil
               /\ \A o \in SessObjs : sess[o].owner # c
          /\ bot[c].first.t \notin {"none", "Auth"} =>
               /\ bot[c].pc = "leave"
               /\ bot[c].up => bot[c].last = ErrorFrame("auth required"))
  /\ [][\A c \in Conns :
          (bot[c].authed /\ bot'[c].pc # "closed") => bot'[c].authed]_vars

\* An authenticated connection has registered a session whose listener is open.
C11_Witness ==
  /\ bot["c1"].authed /\ bot["c1"].pc = "portalloc"
  /\ bot["c1"].first.t = "Auth"
  /\ lis[bot["c1"].obj].bound

\* The connections past the admission check.
Admitted == {c \in Conns : bot[c].pc \notin {"idle", "reject", "closed"}}

\* C12: admission control.  At most maxSessions connections are past the
\* admission check at the same time; a connection that was turned away has
\* read and been sent no frame; and a connection is turned away only while
\* maxSessions connections are admitted (a turned-away connection takes no
\* capacity from later ones).
C12_Admission ==
  /\ [](/\ Cardinality(Admitted) <= maxSessions
        /\ \A c \in Conns :
             bot[c].pc = "reject" =>
               (bot[c].first = NoFrame /\ bot[c].last = NoFrame))
  /\ [][\A c \in Conns :
          (bot[c].pc = "idle" /\ bot'[c].pc = "reject") =>
             Cardinality(Admitted) = maxSessions]_vars

\* The step reads a frame f in the registration loop of connection c.
ReadsRegFrame(c) == bot[c].pc = "reg" /\ bot'[c].regs = bot[c].regs + 1

\* C13: a RegisterDownload or RegisterUpload frame with a payload shorter
\* than 4 bytes, read in the registration loop, changes neither the pool nor
\* the registry, creates no session and opens no listener; it is answered
\* with Error "bad RegisterDownload" / "bad RegisterUpload" (unless the write
\* fails) and the connection stays in the registration loop.
C13_ShortRegistration ==
  [][\A c \in Conns :
       (/\ ReadsRegFrame(c)
        /\ bot'[c].rd.t \in {"RegisterDownload", "RegisterUpload"}
        /\ Len(bot'[c].rd.p) < 4) =>
          /\ pool' = pool /\ sessions' = sessions /\ nsess' = nsess
          /\ sess' = sess /\ lis' = lis
          /\ bot'[c].pc = "reg"
          /\ bot'[c].up =>
               bot'[c].last = ErrorFrame(IF bot'[c].rd.t = "RegisterDownload"
                                         THEN "bad RegisterDownload"
                                         ELSE "bad RegisterUpload")]_vars

\* After a short registration frame the same connection has registered a
\* session with its second frame: the only session created, nothing rolled
\* back, so its first frame was the short one.
C13_Witness ==
  /\ bot["c1"].regs = 2 /\ bot["c1"].pc = "portalloc"
  /\ nsess = 1 /\ bot["c1"].obj = 1 /\ sess[1].rollbacks = 0
  /\ Len(bot["c1"].rd.p) >= 4

\* C14: a well-formed registration read in the registration loop either
\* obtains a port that was free and lies in the range, or, when the pool
\* could not supply one (possible only while some port is in use), is
\* answered with an Error frame (unless the write fails), leaves the registry,
\* the sessions and the pool's used-set unchanged and stays in the loop.
C14_PoolExhausted ==
  [][\A c \in Conns :
       (/\ ReadsRegFrame(c)
        /\ bot'[c].rd.t \in {"RegisterDownload", "RegisterUpload"}
        /\ Len(bot'[c].rd.p) >= 4) =>
          \/ /\ bot'[c].pc = "insert"
             /\ bot'[c].port \in pool.min..pool.max
             /\ bot'[c].port \notin pool.used
             /\ pool'.used = pool.used \cup {bot'[c].port}
          \/ /\ bot'[c].pc = "reg"
             /\ pool.used # {}
             /\ pool' = pool /\ sessions' = sessions /\ nsess' = nsess
             /\ sess' = sess /\ lis' = lis
             /\ bot'[c].up => bot'[c].last.t = "Error"]_vars

\* A connection was refused a port, a port was released, and its next
\* registration on the same connection obtained that port: the single-port
\* pool's only port is now held by the session it registered second.
C14_Witness ==
  /\ pool.min = pool.max
  /\ bot["c2"].regs = 2 /\ bot["c2"].pc = "listen"
  /\ bot["c2"].last = ErrorFrame("no free port")
  /\ pool.used = {bot["c2"].port}
  /\ sess[1].owner = "c1" /\ sess[1].releases = 1

\* Connection c is rolling back a registration whose Listen failed and has
\* released the port but not yet removed the entry it created.
HalfRolledBack(c) ==
  /\ bot[c].pc = "rb_delete"
  /\ sessions[bot[c].sid] = bot[c].obj

\* C15: the rollback of a registration whose Listen failed is atomic with
\* respect to other registrations: when the rollback ends (the Error frame is
\* sent) the registry holds no entry under the identifier, and while only the
\* port has been released no other connection's registration obtains a port.
C15_RollbackAtomic ==
  [][\A c \in Conns :
       /\ (bot[c].pc = "rb_delete" /\ bot'[c].pc = "reg") =>
             sessions'[bot[c].sid] = Nil
       /\ HalfRolledBack(c) =>
             \A d \in Conns \ {c} :
                ~(ReadsRegFrame(d) /\ bot'[d].pc = "insert")]_vars

RECURSIVE EncodeAll(_)
EncodeAll(fs) ==
  IF fs = <<>> THEN <<>>
  ELSE BCat(WriteFrameBytes(Head(fs).t, Head(fs).p), EncodeAll(Tail(fs)))

\* C16: on a stream that holds only frames put there by WriteFrame, with any
\* type and payloads of 0 bytes up to 2 MiB, the i-th ReadFrame succeeds and
\* returns the type and the payload of the i-th frame written, and the unread
\* bytes are exactly the frames not yet read, back to back.
C16_FrameRoundTrip ==
  ~wire.raw =>
    /\ Len(wire.got) <= Len(wire.sent)
    /\ \A i \in 1..Len(wire.got) :
         /\ wire.got[i].err = "none" /\ ~wire.got[i].nil
         /\ wire.got[i].t = wire.sent[i].t
         /\ wire.got[i].p = wire.sent[i].p
    /\ wire.buf = EncodeAll(SubSeq(wire.sent, Len(wire.got) + 1, Len(wire.sent)))

\* Two frames were written back to back, the second of 2 MiB, and both were
\* read.
C16_Witness ==
  /\ ~wire.raw /\ Len(wire.sent) = 2 /\ Len(wire.got) = 2
  /\ BLen(wire.sent[1].p) > 0 /\ wire.sent[1] # wire.sent[2]
  /\ BLen(wire.got[2].p) = MaxFramePayload

\* The length the next header on the stream declares, as <<high, low>>
\* 16-bit halves, and the step in which ReadFrame reads that header.
Declared == Uint32(SubSeq(BList(BTake(wire.buf, 5)), 2, 5))
ReadsHeader == BLen(wire.buf) >= 5 /\ Len(wire'.got) = Len(wire.got) + 1
LastGot == wire'.got[Len(wire'.got)]
Ceiling == U32(MaxFramePayload)

\* C17: a ReadFrame call that finds a header declaring more than 2 MiB fails
\* with the oversized-payload error (io.ErrShortBuffer), returns no payload
\* and takes exactly the 5 header bytes off the stream; a header declaring
\* exactly 2 MiB is not refused, and with the 2 MiB on the stream the frame
\* is returned whole.
C17_OversizedRejected ==
  [][ReadsHeader =>
       /\ (Declared[1] > Ceiling[1] \/
           (Declared[1] = Ceiling[1] /\ Declared[2] > Ceiling[2])) =>
             /\ LastGot.err = "ErrShortBuffer" /\ LastGot.nil
             /\ wire'.buf = BDrop(wire.buf, 5)
             /\ BLen(wire'.buf) = BLen(wire.buf) - 5
       /\ Declared = Ceiling =>
             /\ LastGot.err # "ErrShortBuffer"
             /\ BLen(wire.buf) >= 5 + MaxFramePayload =>
                  /\ LastGot.err = "none"
                  /\ BLen(LastGot.p) = MaxFramePayload
                  /\ BLen(wire'.buf) = BLen(wire.buf) - 5 - MaxFramePayload]_vars

\* A header declaring more than 2 MiB was refused, and the 2 MiB of bytes
\* that followed it are still on the stream.
C17_Witness ==
  /\ wire.raw /\ wire.got # <<>>
  /\ wire.got[Len(wire.got)].err = "ErrShortBuffer"
  /\ BLen(wire.buf) = MaxFramePayload

\* The tasks that push to or close a queue of session object o: download
\* relay loops are the producers of BotStream, listener goroutines reading
\* the user's socket the producers of UserConn.
BotStreamProducers(o) ==
  {c \in Conns : bot[c].pc \in {"dl", "dl_close"} /\ bot[c].sess = o}
UserConnProducers(o) ==
  {l \in SessObjs : lis[l].pc = "ul" /\ lis[l].sess = o}

\* C18: every session queue has at most one task that pushes to it or closes
\* it, also when two registrations used the same identifier; no queue is
\* closed twice and nothing is pushed onto a closed queue (either would
\* panic).
C18_SingleProducer ==
  /\ ~panicked
  /\ \A o \in SessObjs :
       /\ Cardinality(BotStreamProducers(o)) <= 1
       /\ Cardinality(UserConnProducers(o)) <= 1

\* The step in which connection c writes its PortAlloc frame.
SendsPortAlloc(c) ==
  /\ bot[c].pc = "portalloc"
  /\ bot'[c].last.t = "PortAlloc" /\ bot'[c].up

\* C19: when a PortAlloc frame carrying port P is sent, P lies in the
\* configured range and is in the pool's used-set, the registry maps the
\* registration's identifier to the session it created, and that session's
\* listener is bound on P; before PortAlloc no frame of the connection has
\* been relayed as session data.
C19_PortAllocOrdering ==
  /\ [][\A c \in Conns : SendsPortAlloc(c) =>
          /\ bot'[c].last.p = PutUint32(bot[c].port)
          /\ bot[c].port \in pool.min..pool.max
          /\ bot[c].port \in pool.used
          /\ sessions[bot[c].sid] = bot[c].obj
          /\ lis[bot[c].obj].bound /\ sess[bot[c].obj].Port = bot[c].port]_vars
  /\ [](\A c \in Conns :
          bot[c].pc \in {"auth", "reg", "insert", "listen", "rb_release",
                         "rb_delete", "portalloc"} =>
             bot[c].frames = 0 /\ bot[c].relayed = <<>>)

\* The username length an Auth payload of at least 4 bytes declares, as its
\* high and low 16 bits; the value is High * 65536 + Low.
DeclaredHigh(p) == p[1] * 256 + p[2]
DeclaredLow(p) == p[3] * 256 + p[4]
\* The declared length L is 0, exceeds 256, or 4 + L exceeds the payload
\* length, all as mathematical integers.
BadDeclared(p) ==
  \/ DeclaredHigh(p) = 0 /\ DeclaredLow(p) = 0
  \/ DeclaredHigh(p) > 0 \/ DeclaredLow(p) > 256
  \/ DeclaredHigh(p) > 0 \/ 4 + DeclaredLow(p) > Len(p)

\* C20: the handshake never slices the payload beyond its end (no panic); an
\* answered Auth frame of at least 4 bytes whose declared username length L
\* is 0, exceeds 256 or has 4 + L beyond the payload is answered with Error
\* "auth failed", also when the 32-bit sum 4 + L wraps around; otherwise the
\* answer is AuthOk exactly when payload[4..4+L) is a configured username and
\* the remainder is its secret.
C20_AuthLengthChecked ==
  /\ ~panicked
  /\ \A c \in Conns :
       LET p == bot[c].first.p
       IN (bot[c].first.t = "Auth" /\ Len(p) >= 4 /\ bot[c].last # NoFrame) =>
            IF BadDeclared(p)
            THEN bot[c].last = ErrorFrame("auth failed") /\ ~bot[c].authed
            ELSE LET username == SubSeq(p, 5, 4 + DeclaredLow(p))
                     secret == SubSeq(p, 5 + DeclaredLow(p), Len(p))
                 IN IF username \in DOMAIN users /\ users[username] = secret
                    THEN bot[c].last = Frame("AuthOk", <<>>) /\ bot[c].authed
                    ELSE bot[c].last = ErrorFrame("auth failed") /\ ~bot[c].authed

\* An Auth payload declaring L = 2^32 - 4, for which the 32-bit sum 4 + L is
\* 0, was answered with Error "auth failed".
C20_Witness ==
  /\ bot["c1"].first.t = "Auth" /\ Len(bot["c1"].first.p) = 6
  /\ SubSeq(bot["c1"].first.p, 1, 4) = <<255, 255, 255, 252>>
  /\ bot["c1"].last = ErrorFrame("auth failed")

\* The session objects the registry holds.
Registered == {sessions[id] : id \in SessionIDs} \ {Nil}

\* C21: every session present in the registry holds a port that is in the
\* pool's used-set, and no two sessions present in the registry hold the same
\* port, in every state, the intermediate states of registration, rollback
\* and teardown included.
C21_RegistryPoolConsistent ==
  /\ \A o \in Registered : sess[o].Port \in pool.used
  /\ \A o \in Registered : \A q \in Registered \ {o} : sess[o].Port # sess[q].Port

\* C22: a port is not available for allocation while a listener of this relay
\* is bound to it: whenever the listener opened for a session is still open,
\* the session's port is in the pool's used-set.
C22_BoundPortInUse ==
  \A o \in SessObjs : lis[o].bound => sess[o].Port \in pool.used

====
